---- MODULE Spec2Model ----
(***************************************************************************)
(* Model of examples/python/examples.py: the four annotated functions and  *)
(* their @ai: annotation blocks, together with the extraction and          *)
(* verification pipeline that consumes them (spec sections 4.1 to 4.5).    *)
(*                                                                         *)
(* The functions and the annotation text are translated from examples.py.  *)
(* The pipeline (extractor, parser, evaluator, execution adapter,          *)
(* verifier) has no code in the repository and is modelled from the spec.  *)
(***************************************************************************)
EXTENDS Integers, Sequences, FiniteSets, TLC

(***************************************************************************)
(* Python numbers.                                                         *)
(*                                                                         *)
(* A Python float is modelled by its exact decimal value: a sign and a     *)
(* magnitude m / Base^s, m an arbitrary-precision natural kept as a        *)
(* little-endian sequence of limbs below Base.  binary64 rounding          *)
(* (relative error 2^-53 per operation) is not modelled; the binary64      *)
(* range is: a power at or beyond 2^1024 raises OverflowError, a product   *)
(* at or beyond it is inf.                                                 *)
(***************************************************************************)
Base == 10^3

\* the natural without its most significant zero limbs
NNorm(a) ==
    LET top == {k \in 1..Len(a) : a[k] # 0}
    IN  IF top = {} THEN <<>>
        ELSE SubSeq(a, 1, CHOOSE k \in top : \A j \in top : j <= k)

RECURSIVE NFromInt(_)
NFromInt(n) == IF n = 0 THEN <<>> ELSE <<n % Base>> \o NFromInt(n \div Base)

\* the sequence f[1], ..., f[n]
Limbs(f, n) == SubSeq(f, 1, n)

\* carries (and borrows) moved up one limb per pass until every limb is a digit
RECURSIVE NCarry(_)
NCarry(v) ==
    IF \A k \in 1..Len(v) : v[k] >= 0 /\ v[k] < Base THEN NNorm(v)
    ELSE NCarry(Limbs([k \in 1..(Len(v) + 1) |->
                          (IF k <= Len(v) THEN v[k] % Base ELSE 0)
                          + (IF k > 1 THEN v[k - 1] \div Base ELSE 0)],
                      Len(v) + 1))

NLimb(a, k) == IF k >= 1 /\ k <= Len(a) THEN a[k] ELSE 0
NMaxLen(a, b) == IF Len(a) >= Len(b) THEN Len(a) ELSE Len(b)

NAdd(a, b) ==
    NCarry(Limbs([k \in 1..NMaxLen(a, b) |-> NLimb(a, k) + NLimb(b, k)], NMaxLen(a, b)))

\* a - b for a >= b
NSub(a, b) ==
    NCarry(Limbs([k \in 1..NMaxLen(a, b) |-> NLimb(a, k) - NLimb(b, k)], NMaxLen(a, b)))

\* sum of a[i] * b[k + 1 - i] over lo <= i <= hi
RECURSIVE NConv(_, _, _, _, _)
NConv(a, b, k, lo, hi) ==
    IF lo > hi THEN 0
    ELSE IF lo = hi THEN a[lo] * NLimb(b, k + 1 - lo)
    ELSE LET mid == (lo + hi) \div 2
         IN  NConv(a, b, k, lo, mid) + NConv(a, b, k, mid + 1, hi)

NMul(a, b) ==
    IF a = <<>> \/ b = <<>> THEN <<>>
    ELSE NCarry(Limbs([k \in 1..(Len(a) + Len(b)) |-> NConv(a, b, k, 1, Len(a))],
                      Len(a) + Len(b)))

\* -1, 0, 1 as a < b, a = b, a > b (both normalised)
NCmp(a, b) ==
    IF Len(a) < Len(b) THEN -1
    ELSE IF Len(a) > Len(b) THEN 1
    ELSE LET diff == {k \in 1..Len(a) : a[k] # b[k]}
         IN  IF diff = {} THEN 0
             ELSE LET k == CHOOSE i \in diff : \A j \in diff : j <= i
                  IN  IF a[k] < b[k] THEN -1 ELSE 1

NShift(a, k) == IF a = <<>> THEN <<>> ELSE [i \in 1..k |-> 0] \o a

RECURSIVE NPow(_, _)
NPow(a, n) ==
    IF n = 0 THEN <<1>>
    ELSE LET h == NPow(a, n \div 2)
         IN  IF h = <<>> THEN <<>>
             ELSE LET sq == NMul(h, h)
                  IN  IF n % 2 = 1 THEN NMul(sq, a) ELSE sq

\* magnitudes: [m |-> natural, s |-> number of fractional limbs]
\* low zero limbs of the fraction dropped, so that equal values are equal
DNorm(d) ==
    LET nz == {k \in 1..Len(d.m) : d.m[k] # 0}
    IN  IF nz = {} THEN [m |-> <<>>, s |-> 0]
        ELSE LET low  == CHOOSE k \in nz : \A j \in nz : k <= j
                 drop == IF low - 1 < d.s THEN low - 1 ELSE d.s
             IN  [m |-> SubSeq(d.m, drop + 1, Len(d.m)), s |-> d.s - drop]

DMax(x, y) == IF x >= y THEN x ELSE y
DAt(d, s) == NShift(d.m, s - d.s)
DCmp(a, b) == LET s == DMax(a.s, b.s) IN NCmp(DAt(a, s), DAt(b, s))
DAdd(a, b) == LET s == DMax(a.s, b.s) IN DNorm([m |-> NAdd(DAt(a, s), DAt(b, s)), s |-> s])
DSub(a, b) == LET s == DMax(a.s, b.s) IN DNorm([m |-> NSub(DAt(a, s), DAt(b, s)), s |-> s])
DMul(a, b) == DNorm([m |-> NMul(a.m, b.m), s |-> a.s + b.s])

\* floats: [neg, inf, mag]; zero and inf carry mag of zero
DZero == [m |-> <<>>, s |-> 0]
Fin(neg, mag) == [neg |-> neg /\ mag.m # <<>>, inf |-> FALSE, mag |-> mag]
Inf == [neg |-> FALSE, inf |-> TRUE, mag |-> DZero]
\* the float k / 1000, the form of every literal of examples.py
Milli(k) ==
    Fin(k < 0, DNorm([m |-> NFromInt(IF k < 0 THEN -k ELSE k), s |-> 1]))
FromInt(n) == Milli(n * Base)
\* 2^1024, the first magnitude outside binary64
FloatRange == [m |-> NPow(<<2>>, 1024), s |-> 0]

FNeg(a) == [a EXCEPT !.neg = ~a.neg /\ (a.inf \/ a.mag.m # <<>>)]
FAbs(a) == [a EXCEPT !.neg = FALSE]
FAdd(a, b) ==
    IF a.neg = b.neg THEN Fin(a.neg, DAdd(a.mag, b.mag))
    ELSE IF DCmp(a.mag, b.mag) >= 0 THEN Fin(a.neg, DSub(a.mag, b.mag))
    ELSE Fin(b.neg, DSub(b.mag, a.mag))
FSub(a, b) == FAdd(a, FNeg(b))
\* float * float: an overflowing product is inf, not an exception
FMul(a, b) ==
    LET p == DMul(a.mag, b.mag)
    IN  IF DCmp(p, FloatRange) >= 0
        THEN [neg |-> a.neg # b.neg, inf |-> TRUE, mag |-> DZero]
        ELSE Fin(a.neg # b.neg, p)
\* a <= b
FLe(a, b) ==
    IF a.inf \/ b.inf
    THEN (a.inf /\ a.neg) \/ (b.inf /\ ~b.neg)
    ELSE LET d == FSub(b, a) IN ~d.neg
FLt(a, b) == ~FLe(b, a)

Returned(v) == [kind |-> "returned", value |-> v]
Raised(exc) == [kind |-> "raised", exc |-> exc]

\* float ** int for int >= 0 (float_pow: C pow, OverflowError on ERANGE)
RECURSIVE DPow(_, _)
DPow(d, n) ==
    IF n = 0 THEN [m |-> <<1>>, s |-> 0]
    ELSE LET h == DPow(d, n \div 2)
         IN  IF h.m = <<>> THEN DZero
             ELSE LET sq == DMul(h, h)
                  IN  IF n % 2 = 1 THEN DMul(sq, d) ELSE sq

FPow(x, n) ==
    LET p == DPow(x.mag, n)
    IN  IF DCmp(p, FloatRange) >= 0 THEN Raised("OverflowError")
        ELSE Returned(Fin(x.neg /\ n % 2 = 1, p))

(***************************************************************************)
(* The four functions of examples.py.  A call's outcome is Returned(value) *)
(* or Raised(exception).  Strings are sequences of one-character strings.  *)
(***************************************************************************)
One == FromInt(1)

\* return principal * (1 + rate) ** years
calculate_compound_interest(principal, rate, years) ==
    LET power == FPow(FAdd(One, rate), years)
    IN  IF power.kind = "raised" THEN power
        ELSE Returned(FMul(principal, power.value))

Range(seq) == {seq[i] : i \in 1..Len(seq)}

\* the builtin max over a list of int; max([]) raises ValueError
PyMax(values) ==
    IF values = <<>> THEN Raised("ValueError")
    ELSE Returned(CHOOSE v \in Range(values) : \A w \in Range(values) : w <= v)

\* min in place of max
find_max_min(values) ==
    IF values = <<>> THEN Raised("ValueError")
    ELSE Returned(CHOOSE v \in Range(values) : \A w \in Range(values) : v <= w)

\* return max(values)
find_max(values) == PyMax(values)

\* str.split(sep) for a one-character sep
RECURSIVE PySplit(_, _)
PySplit(str, sep) ==
    LET at == {i \in 1..Len(str) : str[i] = sep}
    IN  IF at = {} THEN <<str>>
        ELSE LET i == CHOOSE j \in at : \A k \in at : j <= k
             IN  <<SubSeq(str, 1, i - 1)>> \o PySplit(SubSeq(str, i + 1, Len(str)), sep)

\* the local part is not required to be non-empty
is_valid_email_any_local(email) ==
    IF email = <<>> THEN Returned(FALSE)
    ELSE LET parts == PySplit(email, "@")
         IN  IF Len(parts) # 2 THEN Returned(FALSE)
             ELSE Returned(parts[2] # <<>> /\ "." \in Range(parts[2]))

\* the domain is not required to contain a dot
is_valid_email_any_domain(email) ==
    IF email = <<>> THEN Returned(FALSE)
    ELSE LET parts == PySplit(email, "@")
         IN  IF Len(parts) # 2 THEN Returned(FALSE)
             ELSE Returned(parts[1] # <<>> /\ parts[2] # <<>>)

\* any string holding an @ is taken as valid
is_valid_email_has_at(email) == Returned("@" \in Range(email))

is_valid_email(email) ==
    IF email = <<>> THEN Returned(FALSE)
    ELSE LET parts == PySplit(email, "@")
         IN  IF Len(parts) # 2 THEN Returned(FALSE)
             ELSE LET local  == parts[1]
                      domain == parts[2]
                  IN  Returned(local # <<>> /\ domain # <<>> /\ "." \in Range(domain))

\* the dict built from the awaited response of client.post(url, json=body)
post_json(response) ==
    Returned([status |-> response.status_code, body |-> response.text])

(***************************************************************************)
(* The text of examples.py, line by line.  A line is blank, a comment, a   *)
(* tagged comment ("# @ai:<tag> <payload>"), a function definition or      *)
(* other code.  Expression and free-text payloads are kept as text; an     *)
(* example payload is kept as its tokens; an effects payload as its        *)
(* comma-separated names.                                                  *)
(***************************************************************************)
LP == [t |-> "("]
RP == [t |-> ")"]
LB == [t |-> "["]
RB == [t |-> "]"]
CM == [t |-> ","]
AR == [t |-> "->"]
TFloat(k)  == [t |-> "float", v |-> Milli(k)]
TInt(n)  == [t |-> "int", v |-> n]
TStr(c)  == [t |-> "str", v |-> c]
TBool(b) == [t |-> "bool", v |-> b]
TName(x) == [t |-> "name", v |-> x]
TDict(d) == [t |-> "dict", v |-> d]

UserAtExampleCom ==
    <<"u", "s", "e", "r", "@", "e", "x", "a", "m", "p", "l", "e", ".", "c", "o", "m">>
InvalidEmail ==
    <<"i", "n", "v", "a", "l", "i", "d", "-", "e", "m", "a", "i", "l">>
AtExampleCom ==
    <<"@", "e", "x", "a", "m", "p", "l", "e", ".", "c", "o", "m">>
UserAt == <<"u", "s", "e", "r", "@">>

Blank   == [kind |-> "blank"]
Comment == [kind |-> "comment"]
Code    == [kind |-> "code"]
Tag(tag, payload) == [kind |-> "tag", tag |-> tag, payload |-> payload]
Def(name, params, is_async) ==
    [kind |-> "def", name |-> name, params |-> params, is_async |-> is_async]

NumLines == 82

ExamplesPy(n) ==
    CASE n \in {1, 2} -> Comment
      [] n \in {3, 7, 8, 20, 21, 35, 36, 52, 57, 58, 74, 76, 79, 81} -> Blank
      [] n = 9  -> Tag("intent", "Calculate compound interest for a loan or investment")
      [] n = 10 -> Tag("pre", "principal > 0.0 and rate >= 0.0 and years >= 0")
      [] n = 11 -> Tag("post", "result >= principal")
      [] n = 12 -> Tag("example",
                       <<LP, TFloat(1000000), CM, TFloat(50), CM, TInt(10), RP, AR, TFloat(1628890)>>)
      [] n = 13 -> Tag("example",
                       <<LP, TFloat(1000000), CM, TFloat(0), CM, TInt(5), RP, AR, TFloat(1000000)>>)
      [] n = 14 -> Tag("example",
                       <<LP, TFloat(500000), CM, TFloat(100), CM, TInt(1), RP, AR, TFloat(550000)>>)
      [] n = 15 -> Tag("effects", <<"pure">>)
      [] n = 16 -> Tag("complexity", "O(1)")
      [] n = 17 -> Tag("confidence", TFloat(950))
      [] n = 18 -> Def("calculate_compound_interest",
                       <<"principal", "rate", "years">>, FALSE)
      [] n = 22 -> Tag("intent", "Find the maximum value in a non-empty list")
      [] n = 23 -> Tag("pre", "len(values) > 0")
      [] n = 24 -> Tag("post", "result in values")
      [] n = 25 -> Tag("post", "result >= max(values)")
      [] n = 26 -> Tag("example",
                       <<LP, LB, TInt(1), CM, TInt(5), CM, TInt(3), CM, TInt(9), CM, TInt(2),
                         RB, RP, AR, TInt(9)>>)
      [] n = 27 -> Tag("example", <<LP, LB, TInt(42), RB, RP, AR, TInt(42)>>)
      [] n = 28 -> Tag("example",
                       <<LP, LB, TInt(-5), CM, TInt(-2), CM, TInt(-8), RB, RP, AR, TInt(-2)>>)
      [] n = 29 -> Tag("effects", <<"pure">>)
      [] n = 30 -> Tag("complexity", "O(n)")
      [] n = 31 -> Tag("edge_cases", "single element -> returns that element")
      [] n = 32 -> Tag("edge_cases", "all equal -> returns that value")
      [] n = 33 -> Def("find_max", <<"values">>, FALSE)
      [] n = 37 -> Tag("intent",
                       "Send an HTTP POST request with JSON body and return the response")
      [] n = 38 -> Tag("pre", "url is a valid HTTP/HTTPS URL")
      [] n = 39 -> Tag("pre", "body is a JSON-serializable dict")
      [] n = 40 -> Tag("post", "result contains status_code and response body")
      [] n = 41 -> Tag("effects", <<"network", "io">>)
      [] n = 42 -> Tag("idempotent", "false")
      [] n = 43 -> Tag("needs_review", "Verify timeout handling and error cases")
      [] n = 44 -> Tag("assumes", "Network connectivity is available")
      [] n = 45 -> Tag("confidence", TFloat(750))
      [] n = 46 -> Def("post_json", <<"client", "url", "body">>, TRUE)
      [] n = 59 -> Tag("intent", "Validate an email address format using basic rules")
      [] n = 60 -> Tag("pre", "email is not None")
      [] n = 61 -> Tag("post",
                       "result == True implies '@' in email with text on both sides")
      [] n = 62 -> Tag("example", <<LP, TStr(UserAtExampleCom), RP, AR, TBool(TRUE)>>)
      [] n = 63 -> Tag("example", <<LP, TStr(InvalidEmail), RP, AR, TBool(FALSE)>>)
      [] n = 64 -> Tag("example", <<LP, TStr(AtExampleCom), RP, AR, TBool(FALSE)>>)
      [] n = 65 -> Tag("example", <<LP, TStr(UserAt), RP, AR, TBool(FALSE)>>)
      [] n = 66 -> Tag("example", <<LP, TStr(<<>>), RP, AR, TBool(FALSE)>>)
      [] n = 67 -> Tag("effects", <<"pure">>)
      [] n = 68 -> Tag("complexity", "O(n)")
      [] n = 69 -> Tag("confidence", TFloat(850))
      [] n = 70 -> Tag("needs_review",
                       "Does not validate against RFC 5322, only basic format")
      [] n = 71 -> Def("is_valid_email", <<"email">>, FALSE)
      [] OTHER -> Code

\* the opening line of post_json's signature is not taken as a definition
DeclaredLine_open_signature(n) == IF n = 46 THEN Code ELSE ExamplesPy(n)

\* calculate_compound_interest declared as pure, io
DeclaredLine_pure_io(n) ==
    IF n = 15 THEN Tag("effects", <<"pure", "io">>) ELSE ExamplesPy(n)

\* post_json declared as pure
DeclaredLine_pure_post(n) ==
    IF n = 41 THEN Tag("effects", <<"pure">>) ELSE ExamplesPy(n)

\* line n of examples.py
DeclaredLine(n) == ExamplesPy(n)

(***************************************************************************)
(* Bounds of the model.                                                    *)
(***************************************************************************)
MaxFlips == 2
MaxAuthored == 2
Parallelism == 2
MaxYears == 10
MaxListLen == 3
MaxIntValue == 2
MaxStrLen == 4

VARIABLES
    mode,        \* "pipeline": a run over the source text; "probe": one direct call
    dry_mode,    \* configuration option dry_mode
    flips,       \* is_valid_email examples (1..5) whose expected output is negated
    authored,    \* number of examples authored onto post_json's block
    effectsEdit, \* post_json's effects payload also names pure
    pos,         \* extractor: the next line to scan
    cand,        \* extractor: the candidate block being gathered
    blocks,      \* extractor: accepted blocks, in source order
    orphans,     \* extractor: blocks reported as OrphanAnnotation
    parsed,      \* parser: number of blocks parsed so far
    contracts,   \* parser: the contracts built, in source order
    diags,       \* parser: non-fatal diagnostics
    ver,         \* verifier: per contract, its verification state
    probe        \* the function called directly, its inputs and its outcome

vars == <<mode, dry_mode, flips, authored, effectsEdit, pos, cand, blocks, orphans,
          parsed, contracts, diags, ver, probe>>

input == <<mode, dry_mode, flips, authored, effectsEdit>>
extractor == <<pos, cand, blocks, orphans>>
parser == <<parsed, contracts, diags>>

(***************************************************************************)
(* The source text handed to the extractor: examples.py, or examples.py    *)
(* with an authoring edit (negated expected outputs of is_valid_email,     *)
(* examples added to post_json in place of its last tags, pure added to    *)
(* post_json's effects).                                                   *)
(***************************************************************************)
AuthoredExample ==
    <<LP, TName("client"), CM, TName("url"), CM, TName("body"), RP, AR,
      TDict([status |-> 200, body |-> "ok"])>>

Line(n) ==
    LET d == DeclaredLine(n)
    IN  IF n \in 62..66 /\ (n - 61) \in flips
        THEN Tag("example", [d.payload EXCEPT ![Len(d.payload)] = TBool(~@.v)])
        ELSE IF n = 41 /\ effectsEdit
        THEN Tag("effects", <<"pure">> \o d.payload)
        ELSE IF n \in (46 - authored)..45
        THEN Tag("example", AuthoredExample)
        ELSE d

(***************************************************************************)
(* 4.1 Block extractor: one line per step, top to bottom.                  *)
(***************************************************************************)
NoBlock == [first |-> 0, last |-> 0, gap |-> 0]

ScanLine ==
    /\ mode = "pipeline"
    /\ pos <= NumLines
    /\ LET l == Line(pos)
       IN  CASE l.kind = "tag" ->
                  IF cand = NoBlock
                  THEN /\ cand' = [first |-> pos, last |-> pos, gap |-> 0]
                       /\ UNCHANGED <<blocks, orphans>>
                  ELSE IF cand.gap <= 1
                  THEN /\ cand' = [cand EXCEPT !.last = pos, !.gap = 0]
                       /\ UNCHANGED <<blocks, orphans>>
                  ELSE /\ cand' = [first |-> pos, last |-> pos, gap |-> 0]
                       /\ orphans' = Append(orphans, [first |-> cand.first, last |-> cand.last])
                       /\ UNCHANGED blocks
             [] l.kind \in {"blank", "comment"} ->
                  /\ cand' = IF cand = NoBlock THEN cand ELSE [cand EXCEPT !.gap = @ + 1]
                  /\ UNCHANGED <<blocks, orphans>>
             [] l.kind = "def" ->
                  IF cand = NoBlock
                  THEN UNCHANGED <<cand, blocks, orphans>>
                  ELSE /\ blocks' = Append(blocks, [first |-> cand.first,
                                                    last |-> cand.last, def |-> pos])
                       /\ cand' = NoBlock
                       /\ UNCHANGED orphans
             [] l.kind = "code" ->
                  IF cand = NoBlock
                  THEN UNCHANGED <<cand, blocks, orphans>>
                  ELSE /\ orphans' = Append(orphans, [first |-> cand.first, last |-> cand.last])
                       /\ cand' = NoBlock
                       /\ UNCHANGED blocks
    /\ pos' = pos + 1
    /\ UNCHANGED <<input, parser, ver, probe>>

\* the end of the text: a candidate still open has no definition after it
ScanEnd ==
    /\ mode = "pipeline"
    /\ pos = NumLines + 1
    /\ pos' = pos + 1
    /\ IF cand = NoBlock THEN UNCHANGED <<cand, orphans>>
       ELSE /\ orphans' = Append(orphans, [first |-> cand.first, last |-> cand.last])
            /\ cand' = NoBlock
    /\ UNCHANGED <<input, blocks, parser, ver, probe>>

ScanDone == pos = NumLines + 2

(***************************************************************************)
(* 4.2 Annotation parser.                                                  *)
(***************************************************************************)
\* expression texts inside the evaluator's grammar (4.3); any other pre/post
\* payload is a ParseError for that tag and the field is omitted
InGrammar(text) ==
    text \in {"principal > 0.0 and rate >= 0.0 and years >= 0",
              "result >= principal",
              "len(values) > 0",
              "result in values",
              "result >= max(values)",
              "email is not None"}

\* bracket depth after token i
Depth(tokens, i) ==
    Cardinality({j \in 1..i : tokens[j].t \in {"(", "["}})
    - Cardinality({j \in 1..i : tokens[j].t \in {")", "]"}})

\* the k-th smallest member of a set of integers
Nth(S, k) == CHOOSE i \in S : Cardinality({j \in S : j < i}) = k - 1

\* a literal, or a bracketed list of literals
ParseValue(piece) ==
    IF Len(piece) = 1 THEN [ty |-> piece[1].t, v |-> piece[1].v]
    ELSE [ty |-> "list",
          v |-> [k \in 1..((Len(piece) - 1) \div 2) |-> piece[2 * k].v]]

\* the positions at which the input list of an example payload is cut:
\* its opening parenthesis, the commas directly inside it, and the
\* parenthesis that balances the opening one
InputCuts(tokens) ==
    LET close == Nth({i \in 1..Len(tokens) : Depth(tokens, i) = 0}, 1)
    IN  {1, close}
        \cup {i \in 2..(close - 1) : tokens[i].t = "," /\ Depth(tokens, i) = 1}

\* "(<inputs>) -> <expected>"
ParseExample(tokens) ==
    LET cuts  == InputCuts(tokens)
        close == Nth(cuts, Cardinality(cuts))
    IN  [inputs   |-> [k \in 1..(Cardinality(cuts) - 1) |->
                          ParseValue(SubSeq(tokens, Nth(cuts, k) + 1, Nth(cuts, k + 1) - 1))],
         expected |-> ParseValue(SubSeq(tokens, close + 2, Len(tokens)))]

WellFormedExample(tokens) ==
    /\ Len(tokens) >= 4
    /\ tokens[1].t = "("
    /\ \E i \in 1..Len(tokens) : Depth(tokens, i) = 0
    /\ LET close == Nth({i \in 1..Len(tokens) : Depth(tokens, i) = 0}, 1)
       IN  close + 2 <= Len(tokens) /\ tokens[close + 1].t = "->"

FZero == Milli(0)

ValidConfidence(tok) == tok.t = "float" /\ FLe(FZero, tok.v) /\ FLe(tok.v, One)

\* pure is mutually exclusive with any other effect
MalformedEffects(effects) == "pure" \in effects /\ effects # {"pure"}

BlockLines(b) == [i \in 1..(b.last - b.first + 1) |-> b.first + i - 1]

TagLines(b, tag) ==
    SelectSeq(BlockLines(b), LAMBDA n : Line(n).kind = "tag" /\ Line(n).tag = tag)

Payloads(lines) == [i \in 1..Len(lines) |-> Line(lines[i]).payload]

Texts(b, tag) == Payloads(TagLines(b, tag))

EffectsOf(b) == UNION {Range(Texts(b, "effects")[i]) : i \in 1..Len(Texts(b, "effects"))}

BuildContract(b) ==
    LET d == Line(b.def)
    IN  [name           |-> d.name,
         params         |-> d.params,
         is_async       |-> d.is_async,
         intent         |-> Texts(b, "intent"),
         preconditions  |-> SelectSeq(Texts(b, "pre"), InGrammar),
         postconditions |-> SelectSeq(Texts(b, "post"), InGrammar),
         examples       |-> LET ok == SelectSeq(Texts(b, "example"), WellFormedExample)
                            IN  [i \in 1..Len(ok) |-> ParseExample(ok[i])],
         effects        |-> EffectsOf(b),
         complexity     |-> Texts(b, "complexity"),
         confidence     |-> LET ok == SelectSeq(Texts(b, "confidence"), ValidConfidence)
                            IN  [i \in 1..Len(ok) |-> ok[i].v],
         edge_cases     |-> Texts(b, "edge_cases"),
         needs_review   |-> Texts(b, "needs_review"),
         assumes        |-> Texts(b, "assumes")]

\* the tag lines of a block whose payload does not parse
ParseErrors(b) ==
    SelectSeq(BlockLines(b),
              LAMBDA n :
                  LET l == Line(n)
                  IN  /\ l.kind = "tag"
                      /\ \/ l.tag \in {"pre", "post"} /\ ~InGrammar(l.payload)
                         \/ l.tag = "example" /\ ~WellFormedExample(l.payload)
                         \/ l.tag = "confidence" /\ ~ValidConfidence(l.payload))

Diag(kind, line) == [kind |-> kind, line |-> line]

NoStatus == [s |-> "none", index |-> -1, reason |-> ""]
Status(s, index, reason) == [s |-> s, index |-> index, reason |-> reason]

PendingVer ==
    [phase     |-> "Pending",
     trail     |-> <<"Pending">>,
     status    |-> NoStatus,
     next      |-> 1,
     calls     |-> 0,
     actual    |-> <<>>,
     call      |-> "idle",
     discarded |-> 0,
     warnings  |-> {}]

ParseBlock ==
    /\ mode = "pipeline"
    /\ ScanDone
    /\ parsed < Len(blocks)
    /\ LET b    == blocks[parsed + 1]
           errs == ParseErrors(b)
           perr == [i \in 1..Len(errs) |-> Diag("ParseError", errs[i])]
       IN  IF MalformedEffects(EffectsOf(b))
           THEN /\ diags' = diags \o perr \o <<Diag("MalformedEffects", b.first)>>
                /\ UNCHANGED <<contracts, ver>>
           ELSE /\ diags' = diags \o perr
                /\ contracts' = Append(contracts, BuildContract(b))
                /\ ver' = Append(ver, PendingVer)
    /\ parsed' = parsed + 1
    /\ UNCHANGED <<input, extractor, probe>>

ParseDone == ScanDone /\ parsed = Len(blocks)

(***************************************************************************)
(* 4.3 Expression evaluator: the expressions of examples.py over the bound *)
(* arguments (in parameter order) and result.                              *)
(***************************************************************************)
EvalExpr(text, args, result) ==
    CASE text = "principal > 0.0 and rate >= 0.0 and years >= 0" ->
            FLt(FZero, args[1].v) /\ FLe(FZero, args[2].v) /\ args[3].v >= 0
      [] text = "result >= principal" -> FLe(args[1].v, result.v)
      [] text = "len(values) > 0" -> Len(args[1].v) > 0
      [] text = "result in values" -> result.v \in Range(args[1].v)
      [] text = "result >= max(values)" ->
            /\ PyMax(args[1].v).kind = "returned"
            /\ result.v >= PyMax(args[1].v).value
      [] text = "email is not None" -> TRUE

\* default tolerances: atol = 1e-6, rtol = 1e-9
Atol == Fin(FALSE, [m |-> <<1>>, s |-> 2])
Rtol == Fin(FALSE, [m |-> <<1>>, s |-> 3])

AsFloat(val) == IF val.ty = "int" THEN FromInt(val.v) ELSE val.v

\* |a - b| <= atol + rtol * |b|
WithinTolerance(a, b) ==
    FLe(FAbs(FSub(a, b)), FAdd(Atol, FMul(Rtol, FAbs(b))))

\* numeric outputs by tolerance, any other output by structural equality
Matches(actual, expected) ==
    IF actual.ty \in {"float", "int"} /\ expected.ty \in {"float", "int"}
    THEN WithinTolerance(AsFloat(actual), AsFloat(expected))
    ELSE actual.ty = expected.ty /\ actual.v = expected.v

(***************************************************************************)
(* 4.4 Execution adapter.                                                  *)
(***************************************************************************)
Typed(outcome, ty) ==
    IF outcome.kind = "raised" THEN outcome
    ELSE Returned([ty |-> ty, v |-> outcome.value])

\* a synchronous callable, run directly
CallSync(name, inputs) ==
    CASE name = "calculate_compound_interest" ->
            Typed(calculate_compound_interest(inputs[1].v, inputs[2].v, inputs[3].v), "float")
      [] name = "find_max" -> Typed(find_max(inputs[1].v), "int")
      [] name = "is_valid_email" -> Typed(is_valid_email(inputs[1].v), "bool")

\* what the server may answer to the awaited client.post
Responses ==
    {[status_code |-> 200, text |-> "ok"], [status_code |-> 500, text |-> "error"]}

(***************************************************************************)
(* 4.5 Verifier: one state machine per contract, run by a bounded pool of  *)
(* workers.                                                                *)
(***************************************************************************)
Contracts == 1..Len(contracts)

Active(c) == ver[c].phase \notin {"Pending", "Done"}

Terminate(v, st) ==
    LET final == IF v.status = NoStatus THEN st ELSE v.status
    IN  [v EXCEPT !.status = final, !.phase = "Done", !.trail = Append(@, final.s)]

Advance(v, phase) == [v EXCEPT !.phase = phase, !.trail = Append(@, phase)]

\* dry mode skips a contract whose effects exclude pure
EffectfulSkip(contract) == dry_mode /\ "pure" \notin contract.effects

\* examples whose bound inputs violate a stated precondition
ViolatingExamples(contract) ==
    {i \in 1..Len(contract.examples) :
        \E j \in 1..Len(contract.preconditions) :
            ~EvalExpr(contract.preconditions[j], contract.examples[i].inputs, NoStatus)}

Begin(c) ==
    /\ mode = "pipeline"
    /\ ParseDone
    /\ ver[c].phase = "Pending"
    /\ Cardinality({d \in Contracts : Active(d)}) < Parallelism
    /\ LET contract == contracts[c]
           bad      == ViolatingExamples(contract)
       IN  ver' = [ver EXCEPT ![c] =
                IF EffectfulSkip(contract)
                THEN Terminate(@, Status("Skipped", -1, "EffectfulSkip"))
                ELSE IF bad # {}
                THEN Terminate(@, Status("PreconditionUnsatisfiable", Nth(bad, 1) - 1, ""))
                ELSE Advance(@, "PreconditionsChecked")]
    /\ UNCHANGED <<input, extractor, parser, probe>>

\* the outcome of example v.next is recorded; the first mismatch sets the
\* status, a raised failure ends the contract
Record(v, outcome, expected) ==
    LET v1 == [v EXCEPT !.actual = Append(@, outcome), !.next = @ + 1, !.call = "idle"]
    IN  IF outcome.kind = "raised"
        THEN Terminate(v1, Status("ExecutionFailed", v.next - 1, outcome.exc))
        ELSE IF v.status = NoStatus /\ ~Matches(outcome.value, expected)
        THEN [v1 EXCEPT !.status = Status("ExampleMismatch", v.next - 1, "")]
        ELSE v1

RunExample(c) ==
    /\ mode = "pipeline"
    /\ ParseDone
    /\ ver[c].phase = "PreconditionsChecked"
    /\ ver[c].next <= Len(contracts[c].examples)
    /\ ~contracts[c].is_async
    /\ LET e == contracts[c].examples[ver[c].next]
       IN  ver' = [ver EXCEPT ![c] =
                Record([@ EXCEPT !.calls = @ + 1],
                       CallSync(contracts[c].name, e.inputs), e.expected)]
    /\ UNCHANGED <<input, extractor, parser, probe>>

\* an asynchronous callable is started on the event loop
Invoke(c) ==
    /\ mode = "pipeline"
    /\ ParseDone
    /\ ver[c].phase = "PreconditionsChecked"
    /\ ver[c].next <= Len(contracts[c].examples)
    /\ contracts[c].is_async
    /\ ver[c].call = "idle"
    /\ ver' = [ver EXCEPT ![c].calls = @ + 1, ![c].call = "inflight"]
    /\ UNCHANGED <<input, extractor, parser, probe>>

\* the awaited call returns before the timeout
Respond(c) ==
    /\ ver[c].call = "inflight"
    /\ \E r \in Responses :
          ver' = [ver EXCEPT ![c] =
              Record(@, Typed(post_json(r), "dict"),
                     contracts[c].examples[ver[c].next].expected)]
    /\ UNCHANGED <<input, extractor, parser, probe>>

\* the awaited call raises before the timeout
Fail(c) ==
    /\ ver[c].call = "inflight"
    /\ ver' = [ver EXCEPT ![c] =
           Record(@, Raised("HTTPError"), contracts[c].examples[ver[c].next].expected)]
    /\ UNCHANGED <<input, extractor, parser, probe>>

\* timeout_ms elapses first: the call is detached from the contract
Timeout(c) ==
    /\ ver[c].call = "inflight"
    /\ ver' = [ver EXCEPT ![c] =
           Terminate([@ EXCEPT !.call = "detached"],
                     Status("ExecutionFailed", ver[c].next - 1, "Timeout"))]
    /\ UNCHANGED <<input, extractor, parser, probe>>

\* the result of a detached call is recorded as the example's outcome
LateResult_recorded(c) ==
    /\ ver[c].call = "detached"
    /\ \E r \in Responses :
          ver' = [ver EXCEPT ![c].call = "idle",
                             ![c].actual = Append(@, Typed(post_json(r), "dict")),
                             ![c].status = Status("Verified", -1, "")]
    /\ UNCHANGED <<input, extractor, parser, probe>>

\* a detached call ends at last: whatever it brings is discarded
LateResult(c) ==
    /\ ver[c].call = "detached"
    /\ ver' = [ver EXCEPT ![c].call = "idle", ![c].discarded = @ + 1]
    /\ UNCHANGED <<input, extractor, parser, probe>>

ExamplesDone(c) ==
    /\ mode = "pipeline"
    /\ ParseDone
    /\ ver[c].phase = "PreconditionsChecked"
    /\ ver[c].next > Len(contracts[c].examples)
    /\ ver[c].call = "idle"
    /\ ver' = [ver EXCEPT ![c] =
           IF @.status = NoStatus THEN Advance(@, "ExamplesRun") ELSE Terminate(@, @.status)]
    /\ UNCHANGED <<input, extractor, parser, probe>>

\* <<example, postcondition>> pairs that evaluate to False
Violations(contract, actual) ==
    {p \in (1..Len(contract.examples)) \X (1..Len(contract.postconditions)) :
        ~EvalExpr(contract.postconditions[p[2]], contract.examples[p[1]].inputs,
                  actual[p[1]].value)}

FirstViolation(viol) ==
    CHOOSE p \in viol :
        \A q \in viol : p[1] < q[1] \/ (p[1] = q[1] /\ p[2] <= q[2])

CheckPostconditions(c) ==
    /\ mode = "pipeline"
    /\ ParseDone
    /\ ver[c].phase = "ExamplesRun"
    /\ LET viol == Violations(contracts[c], ver[c].actual)
       IN  ver' = [ver EXCEPT ![c] =
               IF viol # {}
               THEN Terminate(@, Status("PostconditionViolated", FirstViolation(viol)[2] - 1, ""))
               ELSE Advance(@, "PostconditionsChecked")]
    /\ UNCHANGED <<input, extractor, parser, probe>>

Warnings(contract) ==
    {w \in {"LowConfidence", "NeedsReview", "UnreachablePrecondition"} :
        \/ w = "LowConfidence" /\ contract.confidence # <<>>
             /\ FLt(contract.confidence[1], Milli(500))
        \/ w = "NeedsReview" /\ contract.needs_review # <<>>
        \/ w = "UnreachablePrecondition" /\ contract.preconditions # <<>>
             /\ contract.examples = <<>>}

Finish(c) ==
    /\ mode = "pipeline"
    /\ ParseDone
    /\ ver[c].phase = "PostconditionsChecked"
    /\ ver' = [ver EXCEPT ![c] =
           Terminate([@ EXCEPT !.warnings = Warnings(contracts[c])],
                     Status("Verified", -1, ""))]
    /\ UNCHANGED <<input, extractor, parser, probe>>

(***************************************************************************)
(* Direct calls: one function applied to one input drawn from a bounded    *)
(* set, with the outcome kept.                                             *)
(***************************************************************************)
NoProbe == [none |-> TRUE]

\* the function called was fn
Probed(fn) == fn \in DOMAIN probe

Principals == {Milli(0), Milli(500), One, Milli(500000), Milli(1000000)}
Rates == {Milli(-500), Milli(0), Milli(50), Milli(100), One}
\* inputs at the edge of the binary64 range
BigInputs == {<<One, One, 1024>>, <<Milli(1000000), One, 1023>>}
CompoundInputs == (Principals \X Rates \X (0..MaxYears)) \cup BigInputs

SeqsUpTo(S, n) == UNION {[1..k -> S] : k \in 0..n}
IntLists == SeqsUpTo((-MaxIntValue)..MaxIntValue, MaxListLen)
Alphabet == {"a", "@", "."}
Emails == SeqsUpTo(Alphabet, MaxStrLen)

Call_calculate_compound_interest ==
    /\ mode = "probe"
    /\ probe = NoProbe
    /\ \E in \in CompoundInputs :
          probe' = [calculate_compound_interest |->
                   [args    |-> <<[ty |-> "float", v |-> in[1]],
                                  [ty |-> "float", v |-> in[2]],
                                  [ty |-> "int", v |-> in[3]]>>,
                    outcome |-> Typed(calculate_compound_interest(in[1], in[2], in[3]),
                                      "float")]]
    /\ UNCHANGED <<input, extractor, parser, ver>>

Call_find_max ==
    /\ mode = "probe"
    /\ probe = NoProbe
    /\ \E values \in IntLists :
          probe' = [find_max |->
                   [args    |-> <<[ty |-> "list", v |-> values]>>,
                    outcome |-> Typed(find_max(values), "int")]]
    /\ UNCHANGED <<input, extractor, parser, ver>>

Call_is_valid_email ==
    /\ mode = "probe"
    /\ probe = NoProbe
    /\ \E email \in Emails :
          probe' = [is_valid_email |->
                   [args    |-> <<[ty |-> "str", v |-> email]>>,
                    outcome |-> Typed(is_valid_email(email), "bool")]]
    /\ UNCHANGED <<input, extractor, parser, ver>>

(***************************************************************************)
(* The system.                                                             *)
(***************************************************************************)
Init ==
    /\ mode \in {"pipeline", "probe"}
    /\ dry_mode \in (IF mode = "pipeline" THEN BOOLEAN ELSE {FALSE})
    /\ flips \in (IF mode = "pipeline"
                  THEN {f \in SUBSET (1..5) : Cardinality(f) <= MaxFlips}
                  ELSE {{}})
    /\ authored \in (IF mode = "pipeline" THEN 0..MaxAuthored ELSE {0})
    /\ effectsEdit \in (IF mode = "pipeline" THEN BOOLEAN ELSE {FALSE})
    \* one authoring edit at a time
    /\ flips = {} \/ (authored = 0 /\ ~effectsEdit)
    /\ authored = 0 \/ ~effectsEdit
    /\ pos = 1
    /\ cand = NoBlock
    /\ blocks = <<>>
    /\ orphans = <<>>
    /\ parsed = 0
    /\ contracts = <<>>
    /\ diags = <<>>
    /\ ver = <<>>
    /\ probe = NoProbe

Next ==
    \/ ScanLine
    \/ ScanEnd
    \/ ParseBlock
    \/ \E c \in Contracts : Begin(c)
    \/ \E c \in Contracts : RunExample(c)
    \/ \E c \in Contracts : Invoke(c)
    \/ \E c \in Contracts : Respond(c)
    \/ \E c \in Contracts : Fail(c)
    \/ \E c \in Contracts : Timeout(c)
    \/ \E c \in Contracts : LateResult(c)
    \/ \E c \in Contracts : ExamplesDone(c)
    \/ \E c \in Contracts : CheckPostconditions(c)
    \/ \E c \in Contracts : Finish(c)
    \/ Call_calculate_compound_interest
    \/ Call_find_max
    \/ Call_is_valid_email

Spec == Init /\ [][Next]_vars

(***************************************************************************)
(* Properties.                                                             *)
(***************************************************************************)
Named(name) == {c \in Contracts : contracts[c].name = name}

Finished(c) == ver[c].phase = "Done"

AllDone == ParseDone /\ \A c \in Contracts : Finished(c)

IsPrefix(s, t) == Len(s) <= Len(t) /\ s = SubSeq(t, 1, Len(s))

Min(S) == CHOOSE i \in S : \A j \in S : i <= j

Mismatch(i) == Status("ExampleMismatch", i, "")

FloatVal(x) == [ty |-> "float", v |-> x]
IntVal(n) == [ty |-> "int", v |-> n]
BoolVal(b) == [ty |-> "bool", v |-> b]

\* 1628.89462677744140625 = 1000 * 1.05^10
Compound_1000_005_10 ==
    Fin(FALSE, [m |-> <<250, 406, 441, 777, 626, 894, 628, 1>>, s |-> 6])

\* C1 as stated: the first declared example of calculate_compound_interest
\* returns a value the tolerance comparison against 1628.89 accepts, and the
\* contract does not get ExampleMismatch(0).
C1_ExampleAccepted ==
    \A c \in Named("calculate_compound_interest") :
        Len(ver[c].actual) >= 1 =>
            /\ ver[c].actual[1].kind = "returned"
            /\ WithinTolerance(ver[c].actual[1].value.v, Milli(1628890))
            /\ ver[c].status # Mismatch(0)

\* C1 amended: calculate_compound_interest(1000.0, 0.05, 10) returns
\* 1000 * 1.05^10 = 1628.8946..., which is more than 0.004 away from the
\* declared 1628.89 while the tolerance atol + rtol * |expected| is below
\* 0.00001, so the contract gets ExampleMismatch(0); the two other declared
\* examples return exactly 1000.0 and 550.0.
C1_ExampleRejected ==
    \A c \in Named("calculate_compound_interest") :
        /\ Len(contracts[c].examples) = 3
        /\ contracts[c].examples[1] =
               [inputs |-> <<FloatVal(Milli(1000000)), FloatVal(Milli(50)), IntVal(10)>>,
                expected |-> FloatVal(Milli(1628890))]
        /\ Len(ver[c].actual) >= 1 =>
               /\ ver[c].actual[1] = Returned(FloatVal(Compound_1000_005_10))
               /\ FLt(Milli(4), FAbs(FSub(ver[c].actual[1].value.v, Milli(1628890))))
               /\ FLt(FAdd(Atol, FMul(Rtol, Milli(1628890))), Fin(FALSE, [m |-> <<10>>, s |-> 2]))
               /\ ver[c].status = Mismatch(0)
        /\ Len(ver[c].actual) >= 2 =>
               ver[c].actual[2] = Returned(FloatVal(Milli(1000000)))
        /\ Len(ver[c].actual) >= 3 =>
               ver[c].actual[3] = Returned(FloatVal(Milli(550000)))

\* the contract of calculate_compound_interest has ended with
\* ExampleMismatch(0) after its three examples were run
C1_Witness ==
    \E c \in Named("calculate_compound_interest") :
        Finished(c) /\ ver[c].status = Mismatch(0) /\ ver[c].calls = 3

VerifiedPath ==
    <<"Pending", "PreconditionsChecked", "ExamplesRun", "PostconditionsChecked", "Verified">>

FindMaxExamples ==
    <<[inputs |-> <<[ty |-> "list", v |-> <<1, 5, 3, 9, 2>>]>>, expected |-> IntVal(9)],
      [inputs |-> <<[ty |-> "list", v |-> <<42>>]>>, expected |-> IntVal(42)],
      [inputs |-> <<[ty |-> "list", v |-> <<-5, -2, -8>>]>>, expected |-> IntVal(-2)]>>

\* C2: for every non-empty list of int, find_max returns a member of the
\* list that no member exceeds, so both postconditions evaluate to True; the
\* three declared examples bind their list to the single argument values and
\* return 9, 42 and -2; the contract walks Pending, PreconditionsChecked,
\* ExamplesRun, PostconditionsChecked and ends Verified.
C2_FindMaxVerified ==
    /\ (Probed("find_max") /\ probe.find_max.args[1].v # <<>>) =>
           LET call == probe.find_max
           IN  /\ call.outcome.kind = "returned"
               /\ call.outcome.value.v \in Range(call.args[1].v)
               /\ \A w \in Range(call.args[1].v) : call.outcome.value.v >= w
               /\ EvalExpr("result in values", call.args, call.outcome.value)
               /\ EvalExpr("result >= max(values)", call.args, call.outcome.value)
    /\ \A c \in Named("find_max") :
           /\ contracts[c].examples = FindMaxExamples
           /\ contracts[c].postconditions = <<"result in values", "result >= max(values)">>
           /\ \A i \in 1..Len(ver[c].actual) :
                  ver[c].actual[i] = Returned(FindMaxExamples[i].expected)
           /\ IsPrefix(ver[c].trail, VerifiedPath)
           /\ Finished(c) => ver[c].status = Status("Verified", -1, "") /\ ver[c].trail = VerifiedPath

\* find_max's contract has ended Verified after its three examples were run
C2_Witness ==
    \E c \in Named("find_max") :
        Finished(c) /\ ver[c].status.s = "Verified" /\ ver[c].calls = 3

EmailExpected == <<TRUE, FALSE, FALSE, FALSE, FALSE>>

EmailInputs == <<UserAtExampleCom, InvalidEmail, AtExampleCom, UserAt, <<>>>>

\* C3: is_valid_email returns True, False, False, False, False on its five
\* declared examples, so the examples as written produce no ExampleMismatch;
\* with the expected output of exactly one example negated, the contract
\* gets ExampleMismatch at that example's zero-based index, set when that
\* example is run and not before.
C3_EmailExamples ==
    \A c \in Named("is_valid_email") :
        /\ Len(contracts[c].examples) = 5
        /\ \A i \in 1..5 :
               contracts[c].examples[i] =
                   [inputs |-> <<[ty |-> "str", v |-> EmailInputs[i]]>>,
                    expected |-> BoolVal(EmailExpected[i] # (i \in flips))]
        /\ \A i \in 1..Len(ver[c].actual) :
               ver[c].actual[i] = Returned(BoolVal(EmailExpected[i]))
        /\ flips = {} => ver[c].status.s # "ExampleMismatch"
        /\ \A k \in 1..5 :
               flips = {k} =>
                   /\ Len(ver[c].actual) >= k => ver[c].status = Mismatch(k - 1)
                   /\ Len(ver[c].actual) < k => ver[c].status = NoStatus
                   /\ Finished(c) => ver[c].status = Mismatch(k - 1)

\* the third example alone is negated and the contract has ended with
\* ExampleMismatch(2)
C3_Witness ==
    /\ flips = {3}
    /\ \E c \in Named("is_valid_email") : Finished(c) /\ ver[c].status = Mismatch(2)

\* C4: with dry_mode set, a contract whose effects do not include pure (here
\* post_json, declared network, io) is never invoked: its invocation count
\* is zero and no outcome is recorded in every reachable state, and the one
\* step it takes leads from Pending straight to Skipped(EffectfulSkip),
\* before any example is looked at.
C4_DrySkip ==
    dry_mode =>
        /\ \A c \in Contracts :
               "pure" \notin contracts[c].effects =>
                   /\ ver[c].calls = 0
                   /\ ver[c].call = "idle"
                   /\ ver[c].actual = <<>>
                   /\ ver[c].next = 1
                   /\ ver[c].phase \in {"Pending", "Done"}
                   /\ Finished(c) =>
                          /\ ver[c].status = Status("Skipped", -1, "EffectfulSkip")
                          /\ ver[c].trail = <<"Pending", "Skipped">>
        /\ \A c \in Named("post_json") :
               /\ contracts[c].effects = {"network", "io"}
               /\ ver[c].calls = 0
               /\ Finished(c) => ver[c].status.s = "Skipped"

\* dry mode, post_json carries an example, and its contract has ended Skipped
C4_Witness ==
    /\ dry_mode
    /\ authored >= 1
    /\ \E c \in Named("post_json") :
           /\ contracts[c].examples # <<>>
           /\ ver[c].status = Status("Skipped", -1, "EffectfulSkip")
           /\ AllDone

Steps(v) == Len(v.trail) + v.next + v.calls + v.discarded

C6_FirstMismatch ==
    \A c \in Named("is_valid_email") :
        LET ran  == Len(ver[c].actual)
            miss == {i \in flips : i <= ran}
        IN  /\ ver[c].calls = ran
            /\ ver[c].next = ran + 1
            /\ \A i \in 1..ran : ver[c].actual[i] = Returned(BoolVal(EmailExpected[i]))
            /\ miss # {} => ver[c].status = Mismatch(Min(miss) - 1)
            /\ miss = {} => ver[c].status.s \in {"none", "Verified"}
            /\ Finished(c) => ran = 5
            /\ (Finished(c) /\ flips # {}) =>
                   ver[c].trail = <<"Pending", "PreconditionsChecked", "ExampleMismatch">>

\* two examples are negated, the second and the fourth; all five were run
\* and the contract has ended with ExampleMismatch(1)
C6_Witness ==
    /\ flips = {2, 4}
    /\ \E c \in Named("is_valid_email") :
           Finished(c) /\ ver[c].calls = 5 /\ ver[c].status = Mismatch(1)

FourNames == <<"calculate_compound_interest", "find_max", "post_json", "is_valid_email">>

FourBlocks ==
    <<[first |-> 9, last |-> 17, def |-> 18], [first |-> 22, last |-> 32, def |-> 33],
      [first |-> 37, last |-> 45, def |-> 46], [first |-> 59, last |-> 70, def |-> 71]>>

\* C7: scanning examples.py yields exactly four blocks, in source order,
\* each bound to the definition line that follows it (post_json's to the
\* opening line of its multi-line async signature); no block is reported as
\* OrphanAnnotation; the contracts built from them are those of
\* calculate_compound_interest, find_max, post_json and is_valid_email, in
\* that order, none twice.
C7_FourContracts ==
    /\ orphans = <<>>
    /\ IsPrefix(blocks, FourBlocks)
    /\ ScanDone => blocks = FourBlocks
    /\ \A i \in 1..Len(blocks) : Line(blocks[i].def).name = FourNames[i]
    /\ ~effectsEdit =>
           /\ Len(contracts) = parsed
           /\ \A c \in Contracts : contracts[c].name = FourNames[c]
           /\ ParseDone => Len(contracts) = 4
    /\ \A c, d \in Contracts : contracts[c].name = contracts[d].name => c = d

\* examples.py as written was scanned and parsed to its end
C7_Witness ==
    /\ flips = {} /\ authored = 0 /\ ~effectsEdit
    /\ ParseDone
    /\ Len(contracts) = 4
    /\ contracts[3].name = "post_json" /\ contracts[3].is_async

\* C8: every contract handed to the verifier has effects = {pure} or
\* effects without pure; an effects declaration naming pure next to another
\* effect is rejected by the parser with a MalformedEffects diagnostic and no
\* contract is built from its block; the four declarations of examples.py
\* (pure, pure, {network, io}, pure) are accepted.
C8_PureExclusive ==
    /\ \A c \in Contracts :
           contracts[c].effects = {"pure"} \/ "pure" \notin contracts[c].effects
    /\ (effectsEdit /\ parsed >= 3) =>
           /\ Named("post_json") = {}
           /\ \E i \in 1..Len(diags) : diags[i] = Diag("MalformedEffects", 37)
    /\ ~effectsEdit =>
           /\ \A i \in 1..Len(diags) : diags[i].kind # "MalformedEffects"
           /\ Len(contracts) = parsed
           /\ \A c \in Contracts :
                  contracts[c].effects =
                      IF contracts[c].name = "post_json" THEN {"network", "io"} ELSE {"pure"}

\* post_json's effects were edited to pure, network, io and the file was
\* parsed to its end: three contracts, one MalformedEffects diagnostic
C8_Witness ==
    /\ effectsEdit
    /\ ParseDone
    /\ Len(contracts) = 3
    /\ \E i \in 1..Len(diags) : diags[i].kind = "MalformedEffects"

\* principal * (1 + rate) * ... * (1 + rate), with years factors (1 + rate)
RECURSIVE Compounded(_, _, _)
Compounded(principal, rate, years) ==
    IF years = 0 THEN principal
    ELSE LET before == Compounded(principal, rate, years - 1)
         IN  IF before.mag.m = <<>> THEN before
             ELSE FMul(before, FAdd(One, rate))

\* principal > 0.0 and rate >= 0.0 and years >= 0
CompoundPre(args) == FLt(FZero, args[1].v) /\ FLe(FZero, args[2].v) /\ args[3].v >= 0

\* C9 as stated: on every input that satisfies the precondition,
\* calculate_compound_interest returns a value, the value is >= principal,
\* and it equals principal when rate = 0 or years = 0.
C9_AlwaysReturns ==
    Probed("calculate_compound_interest") =>
        LET call == probe.calculate_compound_interest
        IN  CompoundPre(call.args) =>
                /\ call.outcome.kind = "returned"
                /\ FLe(call.args[1].v, call.outcome.value.v)
                /\ (call.args[2].v = FZero \/ call.args[3].v = 0) =>
                       call.outcome.value.v = call.args[1].v

\* C9 amended: on an input that satisfies the precondition,
\* calculate_compound_interest either raises OverflowError, which it does
\* exactly when (1 + rate) ** years is 2^1024 or more, or returns
\* principal * (1 + rate) ** years (inf when the product leaves the float
\* range), a value >= principal that equals principal when rate = 0 or
\* years = 0; the postcondition result >= principal holds of every value
\* returned.
C9_ReturnsOrOverflows ==
    Probed("calculate_compound_interest") =>
        LET call      == probe.calculate_compound_interest
            principal == call.args[1].v
            rate      == call.args[2].v
            years     == call.args[3].v
            overflows == DCmp(DPow(FAdd(One, rate).mag, years), FloatRange) >= 0
        IN  CompoundPre(call.args) =>
                IF overflows
                THEN /\ call.outcome = Raised("OverflowError")
                     /\ FLt(FZero, rate) /\ years > MaxYears
                ELSE /\ call.outcome.kind = "returned"
                     /\ years <= MaxYears =>
                            call.outcome.value.v = Compounded(principal, rate, years)
                     /\ FLe(principal, call.outcome.value.v)
                     /\ EvalExpr("result >= principal", call.args, call.outcome.value)
                     /\ (rate = FZero \/ years = 0) => call.outcome.value.v = principal

\* calculate_compound_interest(1.0, 1.0, 1024) satisfies the precondition and
\* has raised OverflowError
C9_Witness ==
    /\ Probed("calculate_compound_interest")
    /\ CompoundPre(probe.calculate_compound_interest.args)
    /\ probe.calculate_compound_interest.args[3].v = 1024
    /\ probe.calculate_compound_interest.outcome = Raised("OverflowError")

\* exactly one @, something before it, something after it, a dot after it
WellFormedEmail(email) ==
    LET ats == {i \in 1..Len(email) : email[i] = "@"}
    IN  /\ Cardinality(ats) = 1
        /\ \A a \in ats :
               /\ 1 < a
               /\ a < Len(email)
               /\ \E j \in (a + 1)..Len(email) : email[j] = "."

\* C10: is_valid_email raises on no string; it returns True exactly on the
\* strings with one @, a non-empty part on each side of it and a dot in the
\* part after it, so it returns False on the empty string and on a string
\* with no @ or with more than one.
C10_EmailShape ==
    Probed("is_valid_email") =>
        LET call  == probe.is_valid_email
            email == call.args[1].v
            ats   == Cardinality({i \in 1..Len(email) : email[i] = "@"})
        IN  /\ call.outcome.kind = "returned"
            /\ call.outcome.value = BoolVal(WellFormedEmail(email))
            /\ (email = <<>> \/ ats # 1) => call.outcome.value.v = FALSE

\* is_valid_email has returned False on a string with two @ and a dot
C10_Witness ==
    /\ Probed("is_valid_email")
    /\ probe.is_valid_email.args[1].v = <<"a", "@", "@", ".">>
    /\ probe.is_valid_email.outcome = Returned(BoolVal(FALSE))
====
